---- MODULE Spec2Model ----
(***************************************************************************)
(* A model of kysely's JoinBuilder and SubQueryBuilder                     *)
(* (src/query-builder/join-builder.ts, src/query-builder/sub-query-        *)
(* builder.ts).                                                            *)
(*                                                                         *)
(* Builders are objects: each lives in a heap (a sequence, the index is    *)
(* the object's identity) and holds one frozen `props` record.  A method   *)
(* is an operator from the heap, the receiver and the arguments to the new *)
(* heap, the returned reference and the exception thrown, so that object   *)
(* identity, and a write to an existing object, are part of the state.     *)
(***************************************************************************)
EXTENDS Naturals, Sequences, FiniteSets

VARIABLES
  joinBuilders,      \* heap of JoinBuilder objects: [props |-> [joinNode |-> ...]]
  lineage,           \* history: per JoinBuilder, the calls that derived it from the root
  subQueryBuilders,  \* heap of SubQueryBuilder objects: [props |-> [executor, adapter], TB]
  queryBuilders,     \* the QueryBuilder objects subQuery() returned, in creation order
  nextQueryId,       \* the process-wide source of query identifiers
  outcome,           \* how the last call ended: what it returned or threw
  failed,            \* history: the receivers on which a call has thrown
  held,              \* per caller, the builders it currently holds
  hist               \* history: per caller, the calls it made itself

vars == <<joinBuilders, lineage, subQueryBuilders, queryBuilders, nextQueryId,
          outcome, failed, held, hist>>

----------------------------------------------------------------------------
(* Bounds of the model. *)

MaxJoinBuilders == 3
MaxChain == 4
MaxSubQueryBuilders == 3
MaxQueryBuilders == 2
MaxQueryId == 3
MaxErrCalls == 2
MaxConcCalls == 4

----------------------------------------------------------------------------
(* Operation nodes (src imports; the node modules are outside the two      *)
(* files, their shapes follow the data model of the specification).        *)

NoOn == [kind |-> "undefined"]

NoThrow == ""

OPERATORS == {"=", "!=", "<", ">", "in", "like", "is"}

ReferenceNode(column) == [kind |-> "ReferenceNode", column |-> column]

ValueNode(value) == [kind |-> "ValueNode", value |-> value]

BinaryOperationNode(l, op, r) ==
  [kind |-> "BinaryOperationNode", leftOperand |-> l,
   operator |-> [kind |-> "OperatorNode", operator |-> op], rightOperand |-> r]

UnaryOperationNode(op, operand) ==
  [kind |-> "UnaryOperationNode", operator |-> op, operand |-> operand]

AndNode(l, r) == [kind |-> "AndNode", left |-> l, right |-> r]

OrNode(l, r) == [kind |-> "OrNode", left |-> l, right |-> r]

RawNode_createWithSql(sql) == [kind |-> "RawNode", sql |-> sql]

ParseError(e) == [kind |-> "ParseError", error |-> e]

IsError(f) == f.kind = "ParseError"

\* parseOn(args): the three-argument comparison form
parseOn(args) ==
  IF args.op \notin OPERATORS
  THEN ParseError("InvalidOperator")
  ELSE BinaryOperationNode(ReferenceNode(args.lhs), args.op, ValueNode(args.rhs))

\* parseReferentialComparison(lhs, op, rhs): both operands are column references
parseReferentialComparison(lhs, op, rhs) ==
  IF op \notin OPERATORS
  THEN ParseError("InvalidOperator")
  ELSE IF lhs = "" \/ rhs = ""
  THEN ParseError("InvalidOperand")
  ELSE BinaryOperationNode(ReferenceNode(lhs), op, ReferenceNode(rhs))

parseExists(arg) ==
  UnaryOperationNode("exists", [kind |-> "SelectQueryNode", query |-> arg])

parseNotExists(arg) ==
  UnaryOperationNode("not exists", [kind |-> "SelectQueryNode", query |-> arg])

\* JoinNode.cloneWithOn(joinNode, fragment): conjuncts onto the existing clause
JoinNode_cloneWithOn(joinNode, fragment) ==
  [joinNode EXCEPT !.on = IF joinNode.on = NoOn THEN fragment
                          ELSE AndNode(joinNode.on, fragment)]

\* JoinNode.cloneWithOrOn(joinNode, fragment): disjuncts onto the existing clause
JoinNode_cloneWithOrOn(joinNode, fragment) ==
  [joinNode EXCEPT !.on = IF joinNode.on = NoOn THEN fragment
                          ELSE OrNode(joinNode.on, fragment)]

----------------------------------------------------------------------------
(* JoinBuilder *)

\* the result of one method call
Returned(heap, ref) == [heap |-> heap, ret |-> ref, threw |-> NoThrow]

Threw(heap, e) == [heap |-> heap, ret |-> 0, threw |-> e]

\* new JoinBuilder(props): a fresh object holding the frozen props
new_JoinBuilder(heap, props) ==
  Returned(Append(heap, [props |-> props]), Len(heap) + 1)

\* Each method is `new JoinBuilder({...this.#props, joinNode: X})` with X evaluated
\* first: a parser that throws leaves before cloneWith... and the constructor run.
\* on() written with the disjunct primitive
on_disjunct(heap, this, args) ==
  LET fragment == parseOn(args)
  IN  IF IsError(fragment)
      THEN Threw(heap, fragment.error)
      ELSE new_JoinBuilder(heap,
             [heap[this].props EXCEPT !.joinNode =
                JoinNode_cloneWithOrOn(heap[this].props.joinNode, fragment)])

\* on() assigning the new join node to its receiver and returning the receiver
on_inPlace(heap, this, args) ==
  LET fragment == parseOn(args)
  IN  IF IsError(fragment)
      THEN Threw(heap, fragment.error)
      ELSE Returned([heap EXCEPT ![this].props.joinNode =
                       JoinNode_cloneWithOn(heap[this].props.joinNode, fragment)], this)

on(heap, this, args) ==
  LET fragment == parseOn(args)
  IN  IF IsError(fragment)
      THEN Threw(heap, fragment.error)
      ELSE new_JoinBuilder(heap,
             [heap[this].props EXCEPT !.joinNode =
                JoinNode_cloneWithOn(heap[this].props.joinNode, fragment)])

\* orOn() written with the conjunct primitive
orOn_conjunct(heap, this, args) ==
  LET fragment == parseOn(args)
  IN  IF IsError(fragment)
      THEN Threw(heap, fragment.error)
      ELSE new_JoinBuilder(heap,
             [heap[this].props EXCEPT !.joinNode =
                JoinNode_cloneWithOn(heap[this].props.joinNode, fragment)])

orOn(heap, this, args) ==
  LET fragment == parseOn(args)
  IN  IF IsError(fragment)
      THEN Threw(heap, fragment.error)
      ELSE new_JoinBuilder(heap,
             [heap[this].props EXCEPT !.joinNode =
                JoinNode_cloneWithOrOn(heap[this].props.joinNode, fragment)])

\* onRef() catching the parser's failure and returning its receiver
onRef_recovering(heap, this, args) ==
  LET fragment == parseReferentialComparison(args.lhs, args.op, args.rhs)
  IN  IF IsError(fragment)
      THEN Returned(heap, this)
      ELSE new_JoinBuilder(heap,
             [heap[this].props EXCEPT !.joinNode =
                JoinNode_cloneWithOn(heap[this].props.joinNode, fragment)])

onRef(heap, this, args) ==
  LET fragment == parseReferentialComparison(args.lhs, args.op, args.rhs)
  IN  IF IsError(fragment)
      THEN Threw(heap, fragment.error)
      ELSE new_JoinBuilder(heap,
             [heap[this].props EXCEPT !.joinNode =
                JoinNode_cloneWithOn(heap[this].props.joinNode, fragment)])

orOnRef(heap, this, args) ==
  LET fragment == parseReferentialComparison(args.lhs, args.op, args.rhs)
  IN  IF IsError(fragment)
      THEN Threw(heap, fragment.error)
      ELSE new_JoinBuilder(heap,
             [heap[this].props EXCEPT !.joinNode =
                JoinNode_cloneWithOrOn(heap[this].props.joinNode, fragment)])

onExists(heap, this, arg) ==
  new_JoinBuilder(heap,
    [heap[this].props EXCEPT !.joinNode =
       JoinNode_cloneWithOn(heap[this].props.joinNode, parseExists(arg))])

onNotExists(heap, this, arg) ==
  new_JoinBuilder(heap,
    [heap[this].props EXCEPT !.joinNode =
       JoinNode_cloneWithOn(heap[this].props.joinNode, parseNotExists(arg))])

\* orOnExists() assigning the new join node to its receiver and returning the receiver
orOnExists_inPlace(heap, this, arg) ==
  Returned([heap EXCEPT ![this].props.joinNode =
              JoinNode_cloneWithOrOn(heap[this].props.joinNode, parseExists(arg))], this)

orOnExists(heap, this, arg) ==
  new_JoinBuilder(heap,
    [heap[this].props EXCEPT !.joinNode =
       JoinNode_cloneWithOrOn(heap[this].props.joinNode, parseExists(arg))])

orOnNotExists(heap, this, arg) ==
  new_JoinBuilder(heap,
    [heap[this].props EXCEPT !.joinNode =
       JoinNode_cloneWithOrOn(heap[this].props.joinNode, parseNotExists(arg))])

\* onTrue() leaving a clause that already is `true` as it is
onTrue_collapsing(heap, this) ==
  new_JoinBuilder(heap,
    [heap[this].props EXCEPT !.joinNode =
       IF heap[this].props.joinNode.on = RawNode_createWithSql("true")
       THEN heap[this].props.joinNode
       ELSE JoinNode_cloneWithOn(heap[this].props.joinNode, RawNode_createWithSql("true"))])

onTrue(heap, this) ==
  new_JoinBuilder(heap,
    [heap[this].props EXCEPT !.joinNode =
       JoinNode_cloneWithOn(heap[this].props.joinNode, RawNode_createWithSql("true"))])

toOperationNode(heap, this) == heap[this].props.joinNode

----------------------------------------------------------------------------
(* SubQueryBuilder *)

\* createQueryId(): a fresh identifier per call, drawn from the process-wide source
createQueryId(next) == [queryId |-> next, next |-> next + 1]

createParseContext(adapter) == [adapter |-> adapter]

TableNode(name) == [kind |-> "TableNode", table |-> name]

\* parseTableExpressionOrList(ctx, table): one table expression or a list of them
parseTableExpressionOrList(ctx, table) ==
  IF table.shape \notin {"table", "list"} \/ Len(table.names) = 0
  THEN ParseError("InvalidTableExpression")
  ELSE [kind |-> "TableExpressions",
        nodes |-> [i \in 1..Len(table.names) |-> TableNode(table.names[i])]]

SelectQueryNode_create(froms) ==
  [kind |-> "SelectQueryNode", from |-> [kind |-> "FromNode", froms |-> froms.nodes]]

WithSchemaPlugin(schema) == [kind |-> "WithSchemaPlugin", schema |-> schema]

\* executor.withPluginAtFront(plugin): a new executor, the plugin first
withPluginAtFront(executor, plugin) ==
  [executor EXCEPT !.plugins = <<plugin>> \o executor.plugins]

\* the tables F adds to the returned builder's static type
TablesOf(table) == {table.names[i] : i \in 1..Len(table.names)}

\* new QueryBuilder(props); TB is the static type QueryBuilderWithTable<DB, TB, {}, F>
new_QueryBuilder(qbs, props, TB) == Append(qbs, [props |-> props, TB |-> TB])

\* subQuery() taking its identifier from one createQueryId() call made once, not per call
subQuery_cachedId(heap, qbs, next, this, table) ==
  LET id     == createQueryId(next)
      parsed == parseTableExpressionOrList(
                  createParseContext(heap[this].props.adapter), table)
  IN  IF IsError(parsed)
      THEN [queryBuilders |-> qbs, nextQueryId |-> next,
            ret |-> 0, threw |-> parsed.error]
      ELSE [queryBuilders |->
              new_QueryBuilder(qbs,
                [queryId   |-> id.queryId,
                 executor  |-> heap[this].props.executor,
                 adapter   |-> heap[this].props.adapter,
                 queryNode |-> SelectQueryNode_create(parsed)],
                heap[this].TB \cup TablesOf(table)),
            nextQueryId |-> next,
            ret |-> Len(qbs) + 1, threw |-> NoThrow]

\* subQuery() typed with the subquery's own tables only, the outer TB dropped
subQuery_ownTables(heap, qbs, next, this, table) ==
  LET id     == createQueryId(next)
      parsed == parseTableExpressionOrList(
                  createParseContext(heap[this].props.adapter), table)
  IN  IF IsError(parsed)
      THEN [queryBuilders |-> qbs, nextQueryId |-> id.next,
            ret |-> 0, threw |-> parsed.error]
      ELSE [queryBuilders |->
              new_QueryBuilder(qbs,
                [queryId   |-> id.queryId,
                 executor  |-> heap[this].props.executor,
                 adapter   |-> heap[this].props.adapter,
                 queryNode |-> SelectQueryNode_create(parsed)],
                TablesOf(table)),
            nextQueryId |-> id.next,
            ret |-> Len(qbs) + 1, threw |-> NoThrow]

\* subQuery(table): the object literal is evaluated in order, so createQueryId()
\* runs before parseTableExpressionOrList, which runs before SelectQueryNode.create
subQuery(heap, qbs, next, this, table) ==
  LET id     == createQueryId(next)
      parsed == parseTableExpressionOrList(
                  createParseContext(heap[this].props.adapter), table)
  IN  IF IsError(parsed)
      THEN [queryBuilders |-> qbs, nextQueryId |-> id.next,
            ret |-> 0, threw |-> parsed.error]
      ELSE [queryBuilders |->
              new_QueryBuilder(qbs,
                [queryId   |-> id.queryId,
                 executor  |-> heap[this].props.executor,
                 adapter   |-> heap[this].props.adapter,
                 queryNode |-> SelectQueryNode_create(parsed)],
                heap[this].TB \cup TablesOf(table)),
            nextQueryId |-> id.next,
            ret |-> Len(qbs) + 1, threw |-> NoThrow]

\* withSchema() assigning the new executor to its receiver and returning the receiver
withSchema_inPlace(heap, this, schema) ==
  Returned([heap EXCEPT ![this].props.executor =
              withPluginAtFront(heap[this].props.executor, WithSchemaPlugin(schema))],
           this)

withSchema(heap, this, schema) ==
  Returned(Append(heap,
             [heap[this] EXCEPT !.props.executor =
                withPluginAtFront(heap[this].props.executor, WithSchemaPlugin(schema))]),
           Len(heap) + 1)

\* QueryBuilder.whereRef(lhs, '=', rhs) on a builder typed with tables TB: a reference
\* resolves only against the tables in scope
whereRef(qb, lhs, rhs) ==
  IF lhs.table \in qb.TB /\ rhs.table \in qb.TB THEN NoThrow ELSE "InvalidOperand"

----------------------------------------------------------------------------
(* await *)

JoinBuilderAwaitMessage ==
  "don't await JoinBuilder instances. They are never executed directly and are always just a part of a query."

\* the classes preventAwait(clazz, message) was called for when the modules load
preventAwait == [JoinBuilder |-> JoinBuilderAwaitMessage]

\* `await b`: a `then` installed by preventAwait throws its message; an object
\* with no `then` is what the await resolves to
await(cls, this) ==
  IF cls \in DOMAIN preventAwait
  THEN [ret |-> 0, threw |-> preventAwait[cls]]
  ELSE [ret |-> this, threw |-> NoThrow]

----------------------------------------------------------------------------
(* Inputs *)

Cmp(lhs, op, rhs) == [lhs |-> lhs, op |-> op, rhs |-> rhs]

AB == Cmp("a", "=", "b")

CD == Cmp("c", "=", "d")

EF == Cmp("e", "=", "f")

BadOperator == Cmp("col", "not_an_operator", "x")

BadOperand == Cmp("a", "=", "")

ExistsArgs == {"sq"}

Table(name) == [shape |-> "table", names |-> <<name>>]

TableList(names) == [shape |-> "list", names |-> names]

BadTable == [shape |-> "number", names |-> <<>>]

Schemas == {"s", "s2"}

Ref(table, column) == [table |-> table, column |-> column]

Callers == {1, 2}

----------------------------------------------------------------------------
(* State *)

RootJoinNode ==
  [kind |-> "JoinNode", joinType |-> "InnerJoin", table |-> TableNode("pet"), on |-> NoOn]

RootExecutor == [kind |-> "NoopQueryExecutor", plugins |-> <<>>]

RootAdapter == [kind |-> "DialectAdapter", dialect |-> "postgres"]

\* the adapter of a SubQueryBuilder made for another, unrelated query
OtherAdapter == [kind |-> "DialectAdapter", dialect |-> "mysql"]

\* the enclosing query's tables: the TB the root SubQueryBuilder is typed with
OuterScope == {"t1"}

NoCall == [cls |-> "", method |-> "", this |-> 0, args |-> <<>>, ret |-> 0, threw |-> NoThrow]

NoQuery == [table |-> BadTable, schemas |-> <<>>]

Init ==
  /\ joinBuilders = <<[props |-> [joinNode |-> RootJoinNode]]>>
  /\ lineage = << <<>> >>
  /\ subQueryBuilders =
       <<[props |-> [executor |-> RootExecutor, adapter |-> RootAdapter], TB |-> OuterScope],
         [props |-> [executor |-> RootExecutor, adapter |-> OtherAdapter], TB |-> OuterScope]>>
  /\ queryBuilders = <<>>
  /\ nextQueryId = 1
  /\ outcome = NoCall
  /\ failed = {}
  /\ held = [c \in Callers |-> [jb |-> 1, sqb |-> 1, qb |-> 0]]
  /\ hist = [c \in Callers |-> [jb |-> <<>>, sqb |-> <<>>, qb |-> NoQuery, n |-> 0]]

----------------------------------------------------------------------------
(* Calls on a JoinBuilder *)

\* the caller's view of one JoinBuilder call that ended as r
JoinCall(method, this, args, r) ==
  LET call == [method |-> method, args |-> args]
      ok   == r.threw = NoThrow
  IN  /\ joinBuilders' = r.heap
      /\ lineage' =
           IF Len(r.heap) = Len(lineage) + 1
           THEN Append(lineage, IF ok THEN Append(lineage[this], call) ELSE <<>>)
           ELSE IF ok /\ r.ret \in 1..Len(lineage)
           THEN [lineage EXCEPT ![r.ret] = Append(lineage[this], call)]
           ELSE lineage
      /\ outcome' = [cls |-> "JoinBuilder", method |-> method, this |-> this,
                     args |-> args, ret |-> r.ret, threw |-> r.threw]
      /\ UNCHANGED <<subQueryBuilders, queryBuilders, nextQueryId>>

JoinBuilder_on(this, args) == JoinCall("on", this, args, on(joinBuilders, this, args))

JoinBuilder_orOn(this, args) == JoinCall("orOn", this, args, orOn(joinBuilders, this, args))

JoinBuilder_onRef(this, args) == JoinCall("onRef", this, args, onRef(joinBuilders, this, args))

JoinBuilder_orOnRef(this, args) ==
  JoinCall("orOnRef", this, args, orOnRef(joinBuilders, this, args))

JoinBuilder_onExists(this, arg) ==
  JoinCall("onExists", this, arg, onExists(joinBuilders, this, arg))

JoinBuilder_onNotExists(this, arg) ==
  JoinCall("onNotExists", this, arg, onNotExists(joinBuilders, this, arg))

JoinBuilder_orOnExists(this, arg) ==
  JoinCall("orOnExists", this, arg, orOnExists(joinBuilders, this, arg))

JoinBuilder_orOnNotExists(this, arg) ==
  JoinCall("orOnNotExists", this, arg, orOnNotExists(joinBuilders, this, arg))

JoinBuilder_onTrue(this) == JoinCall("onTrue", this, <<>>, onTrue(joinBuilders, this))

JoinBuilder_await(this) ==
  LET r == await("JoinBuilder", this)
  IN  /\ outcome' = [cls |-> "JoinBuilder", method |-> "await", this |-> this,
                     args |-> <<>>, ret |-> r.ret, threw |-> r.threw]
      /\ UNCHANGED <<joinBuilders, lineage, subQueryBuilders, queryBuilders, nextQueryId>>

----------------------------------------------------------------------------
(* Calls on a SubQueryBuilder, and on the QueryBuilder it returns *)

SubQueryBuilder_subQuery(this, table) ==
  LET r == subQuery(subQueryBuilders, queryBuilders, nextQueryId, this, table)
  IN  /\ queryBuilders' = r.queryBuilders
      /\ nextQueryId' = r.nextQueryId
      /\ outcome' = [cls |-> "SubQueryBuilder", method |-> "subQuery", this |-> this,
                     args |-> table, ret |-> r.ret, threw |-> r.threw]
      /\ UNCHANGED <<joinBuilders, lineage, subQueryBuilders>>

SubQueryBuilder_withSchema(this, schema) ==
  LET r == withSchema(subQueryBuilders, this, schema)
  IN  /\ subQueryBuilders' = r.heap
      /\ outcome' = [cls |-> "SubQueryBuilder", method |-> "withSchema", this |-> this,
                     args |-> schema, ret |-> r.ret, threw |-> r.threw]
      /\ UNCHANGED <<joinBuilders, lineage, queryBuilders, nextQueryId>>

SubQueryBuilder_await(this) ==
  LET r == await("SubQueryBuilder", this)
  IN  /\ outcome' = [cls |-> "SubQueryBuilder", method |-> "await", this |-> this,
                     args |-> <<>>, ret |-> r.ret, threw |-> r.threw]
      /\ UNCHANGED <<joinBuilders, lineage, subQueryBuilders, queryBuilders, nextQueryId>>

QueryBuilder_whereRef(this, lhs, rhs) ==
  /\ outcome' = [cls |-> "QueryBuilder", method |-> "whereRef", this |-> this,
                 args |-> [lhs |-> lhs, rhs |-> rhs], ret |-> 0,
                 threw |-> whereRef(queryBuilders[this], lhs, rhs)]
  /\ UNCHANGED <<joinBuilders, lineage, subQueryBuilders, queryBuilders, nextQueryId>>

----------------------------------------------------------------------------
(* Spec: any calls, in any order, on any JoinBuilder created so far *)

Receivers ==
  {b \in DOMAIN joinBuilders :
     Len(joinBuilders) < MaxJoinBuilders /\ Len(lineage[b]) < MaxJoinBuilders}

\* the history variables a specification does not record stay as they are
Unrecorded == UNCHANGED <<failed, held, hist>>

Next ==
  \/ \E this \in Receivers, args \in {AB, CD} : JoinBuilder_on(this, args) /\ Unrecorded
  \/ \E this \in Receivers, args \in {AB, CD} : JoinBuilder_orOn(this, args) /\ Unrecorded
  \/ \E this \in Receivers, args \in {AB, CD} : JoinBuilder_onRef(this, args) /\ Unrecorded
  \/ \E this \in Receivers, args \in {AB, CD} : JoinBuilder_orOnRef(this, args) /\ Unrecorded
  \/ \E this \in Receivers, arg \in ExistsArgs : JoinBuilder_onExists(this, arg) /\ Unrecorded
  \/ \E this \in Receivers, arg \in ExistsArgs : JoinBuilder_onNotExists(this, arg) /\ Unrecorded
  \/ \E this \in Receivers, arg \in ExistsArgs : JoinBuilder_orOnExists(this, arg) /\ Unrecorded
  \/ \E this \in Receivers, arg \in ExistsArgs :
       JoinBuilder_orOnNotExists(this, arg) /\ Unrecorded
  \/ \E this \in Receivers : JoinBuilder_onTrue(this) /\ Unrecorded
  \/ \E this \in DOMAIN joinBuilders : JoinBuilder_await(this) /\ Unrecorded

Spec == Init /\ [][Next]_vars

----------------------------------------------------------------------------
(* SpecChain: one fluent chain, b.m1(...).m2(...)... from the root builder *)

ChainEnd == {b \in {Len(joinBuilders)} : Len(lineage[b]) < MaxChain}

NextChain ==
  \/ \E this \in ChainEnd, args \in {AB, CD, EF} : JoinBuilder_on(this, args) /\ Unrecorded
  \/ \E this \in ChainEnd, args \in {AB, CD, EF} : JoinBuilder_orOn(this, args) /\ Unrecorded
  \/ \E this \in ChainEnd, args \in {AB} : JoinBuilder_onRef(this, args) /\ Unrecorded
  \/ \E this \in ChainEnd, args \in {CD} : JoinBuilder_orOnRef(this, args) /\ Unrecorded
  \/ \E this \in ChainEnd, arg \in ExistsArgs : JoinBuilder_onExists(this, arg) /\ Unrecorded
  \/ \E this \in ChainEnd, arg \in ExistsArgs : JoinBuilder_onNotExists(this, arg) /\ Unrecorded
  \/ \E this \in ChainEnd, arg \in ExistsArgs : JoinBuilder_orOnExists(this, arg) /\ Unrecorded
  \/ \E this \in ChainEnd, arg \in ExistsArgs :
       JoinBuilder_orOnNotExists(this, arg) /\ Unrecorded
  \/ \E this \in ChainEnd : JoinBuilder_onTrue(this) /\ Unrecorded

SpecChain == Init /\ [][NextChain]_vars

----------------------------------------------------------------------------
(* SpecSub: any calls on any SubQueryBuilder created so far, and reference  *)
(* parsing on the query builders they returned                              *)

SubQueryReceivers ==
  {b \in DOMAIN subQueryBuilders :
     Len(queryBuilders) < MaxQueryBuilders /\ nextQueryId <= MaxQueryId}

SchemaReceivers ==
  {b \in DOMAIN subQueryBuilders : Len(subQueryBuilders) < MaxSubQueryBuilders}

\* correlation predicates lhs = rhs, as the pair of their references
Correlations ==
  {<<Ref("t2", "owner_id"), Ref("t1", "id")>>, <<Ref("t1", "id"), Ref("t2", "owner_id")>>,
   <<Ref("t3", "id"), Ref("t1", "id")>>, <<Ref("t2", "owner_id"), Ref("t3", "id")>>}

NextSub ==
  \/ \E this \in SubQueryReceivers, table \in {Table("t2"), BadTable} :
       SubQueryBuilder_subQuery(this, table) /\ Unrecorded
  \/ \E this \in SchemaReceivers, schema \in Schemas :
       SubQueryBuilder_withSchema(this, schema) /\ Unrecorded
  \/ \E this \in DOMAIN subQueryBuilders : SubQueryBuilder_await(this) /\ Unrecorded
  \/ \E this \in DOMAIN queryBuilders, corr \in Correlations :
       QueryBuilder_whereRef(this, corr[1], corr[2]) /\ Unrecorded

SpecSub == Init /\ [][NextSub]_vars

----------------------------------------------------------------------------
(* SpecErr: the calls that run a parser that can fail, with arguments it    *)
(* rejects among those it accepts; `failed` records where a call has thrown *)

\* at most MaxErrCalls calls return a builder
ErrCanReturn == (Len(joinBuilders) - 1) + Len(queryBuilders) < MaxErrCalls

ErrJoinReceivers == {b \in DOMAIN joinBuilders : ErrCanReturn}

ErrSubQueryReceivers ==
  {b \in DOMAIN subQueryBuilders : ErrCanReturn /\ nextQueryId <= MaxQueryId}

RecordFailure ==
  /\ failed' = IF outcome'.threw # NoThrow
               THEN failed \cup {<<outcome'.cls, outcome'.this>>}
               ELSE failed
  /\ UNCHANGED <<held, hist>>

NextErr ==
  \/ \E this \in ErrJoinReceivers, args \in {AB, BadOperator} :
       JoinBuilder_on(this, args) /\ RecordFailure
  \/ \E this \in ErrJoinReceivers, args \in {CD, BadOperator} :
       JoinBuilder_orOn(this, args) /\ RecordFailure
  \/ \E this \in ErrJoinReceivers, args \in {AB, BadOperator, BadOperand} :
       JoinBuilder_onRef(this, args) /\ RecordFailure
  \/ \E this \in ErrJoinReceivers, args \in {CD, BadOperand} :
       JoinBuilder_orOnRef(this, args) /\ RecordFailure
  \/ \E this \in ErrSubQueryReceivers, table \in {TableList(<<"t2", "t4">>), BadTable} :
       SubQueryBuilder_subQuery(this, table) /\ RecordFailure

SpecErr == Init /\ [][NextErr]_vars

----------------------------------------------------------------------------
(* SpecConc: two callers hold the same JoinBuilder and the same             *)
(* SubQueryBuilder; each call is one synchronous step, and the steps of the *)
(* callers interleave in any order.  A caller calls the builder it holds    *)
(* and then holds what the call returned.                                   *)

CanCall == hist[1].n + hist[2].n < MaxConcCalls

TookJoinBuilder(c) ==
  /\ held' = [held EXCEPT ![c].jb = outcome'.ret]
  /\ hist' = [hist EXCEPT ![c].jb = Append(@, [method |-> outcome'.method,
                                               args |-> outcome'.args]),
                          ![c].n = @ + 1]
  /\ UNCHANGED failed

TookSubQueryBuilder(c) ==
  /\ held' = [held EXCEPT ![c].sqb = outcome'.ret]
  /\ hist' = [hist EXCEPT ![c].sqb = Append(@, outcome'.args), ![c].n = @ + 1]
  /\ UNCHANGED failed

TookQueryBuilder(c) ==
  /\ held' = [held EXCEPT ![c].qb = outcome'.ret]
  /\ hist' = [hist EXCEPT ![c].qb = [table |-> outcome'.args, schemas |-> hist[c].sqb],
                          ![c].n = @ + 1]
  /\ UNCHANGED failed

CallerStep(c) ==
  \/ \E args \in {AB, CD} :
       CanCall /\ JoinBuilder_on(held[c].jb, args) /\ TookJoinBuilder(c)
  \/ \E args \in {EF} :
       CanCall /\ JoinBuilder_orOn(held[c].jb, args) /\ TookJoinBuilder(c)
  \/ \E schema \in Schemas :
       CanCall /\ SubQueryBuilder_withSchema(held[c].sqb, schema) /\ TookSubQueryBuilder(c)
  \/ \E table \in {Table("t2")} :
       CanCall /\ SubQueryBuilder_subQuery(held[c].sqb, table) /\ TookQueryBuilder(c)

NextConc == \E c \in Callers : CallerStep(c)

SpecConc == Init /\ [][NextConc]_vars

----------------------------------------------------------------------------
(* Properties of the JoinBuilder *)

OnFamily ==
  {"on", "orOn", "onRef", "orOnRef", "onExists", "onNotExists", "orOnExists",
   "orOnNotExists", "onTrue"}

ConjunctFamily == {"on", "onRef", "onTrue", "onExists", "onNotExists"}

DisjunctFamily == {"orOn", "orOnRef", "orOnExists", "orOnNotExists"}

\* the fragment a recorded call's arguments parse to
FragmentOf(call) ==
  CASE call.method \in {"on", "orOn"} -> parseOn(call.args)
    [] call.method \in {"onRef", "orOnRef"} ->
         parseReferentialComparison(call.args.lhs, call.args.op, call.args.rhs)
    [] call.method \in {"onExists", "orOnExists"} -> parseExists(call.args)
    [] call.method \in {"onNotExists", "orOnNotExists"} -> parseNotExists(call.args)
    [] call.method = "onTrue" -> [kind |-> "RawNode", sql |-> "true"]

CmpValue(l, r) ==
  [kind |-> "BinaryOperationNode",
   leftOperand |-> [kind |-> "ReferenceNode", column |-> l],
   operator |-> [kind |-> "OperatorNode", operator |-> "="],
   rightOperand |-> [kind |-> "ValueNode", value |-> r]]

True == [kind |-> "RawNode", sql |-> "true"]

And(l, r) == [kind |-> "AndNode", left |-> l, right |-> r]

Or(l, r) == [kind |-> "OrNode", left |-> l, right |-> r]

Methods(calls) == [i \in DOMAIN calls |-> calls[i].method]

SuccessfulOnCall(o) ==
  o.cls = "JoinBuilder" /\ o.method \in OnFamily /\ o.threw = NoThrow

\* C1: a successful on-family call returns a JoinBuilder that did not exist before,
\* and leaves the join node of every existing JoinBuilder, its receiver included,
\* as it was: whatever calls are made on b, b.toOperationNode() does not change.
C1_ReceiverUnchanged ==
  [][ /\ \A b \in DOMAIN joinBuilders :
           /\ b \in DOMAIN joinBuilders'
           /\ toOperationNode(joinBuilders', b) = toOperationNode(joinBuilders, b)
      /\ SuccessfulOnCall(outcome') =>
           /\ outcome'.ret \in DOMAIN joinBuilders' \ DOMAIN joinBuilders
           /\ outcome'.ret # outcome'.this
           /\ toOperationNode(joinBuilders', outcome'.ret).kind = "JoinNode"
    ]_vars

\* two different calls were made on the root builder, which still has no on clause
C1_Witness ==
  /\ Len(joinBuilders) = 3
  /\ Len(lineage[2]) = 1 /\ Len(lineage[3]) = 1
  /\ lineage[2][1].method # lineage[3][1].method
  /\ toOperationNode(joinBuilders, 1) = RootJoinNode

RECURSIVE LeftAndTree(_, _)
LeftAndTree(calls, n) ==
  IF n = 0 THEN NoOn
  ELSE IF n = 1 THEN FragmentOf(calls[1])
  ELSE And(LeftAndTree(calls, n - 1), FragmentOf(calls[n]))

\* C2: on/onRef/onTrue on a builder whose join node has the on clause C yields
\* AND(C, f), C on the left and the new fragment f on the right; on(a,'=',b).on(c,'=',d)
\* is AND(cmp(a,=,b), cmp(c,=,d)); n such calls yield the left-associated AND-tree
\* of their fragments in call order.
C2_ConjunctionKeepsOrder ==
  /\ (SuccessfulOnCall(outcome) /\ outcome.method \in {"on", "onRef", "onTrue"}
        /\ toOperationNode(joinBuilders, outcome.this).on # NoOn)
       => toOperationNode(joinBuilders, outcome.ret).on =
            And(toOperationNode(joinBuilders, outcome.this).on, FragmentOf(outcome))
  /\ \A b \in DOMAIN joinBuilders :
       /\ (\A i \in DOMAIN lineage[b] : lineage[b][i].method \in {"on", "onRef", "onTrue"})
            => toOperationNode(joinBuilders, b).on =
                 LeftAndTree(lineage[b], Len(lineage[b]))
       /\ (Methods(lineage[b]) = <<"on", "on">>
             /\ lineage[b][1].args = AB /\ lineage[b][2].args = CD)
            => /\ toOperationNode(joinBuilders, b).on =
                    And(CmpValue("a", "b"), CmpValue("c", "d"))
               /\ toOperationNode(joinBuilders, b).on #
                    And(CmpValue("c", "d"), CmpValue("a", "b"))

\* the chain on(a,'=',b).on(c,'=',d).onRef(...) has been built
C2_Witness ==
  \E b \in DOMAIN joinBuilders :
    /\ Methods(lineage[b]) = <<"on", "on", "onRef">>
    /\ lineage[b][1].args = AB /\ lineage[b][2].args = CD
    /\ toOperationNode(joinBuilders, b).on.kind = "AndNode"
    /\ toOperationNode(joinBuilders, b).on.left =
         And(CmpValue("a", "b"), CmpValue("c", "d"))

RECURSIVE FoldOn(_, _)
FoldOn(calls, n) ==
  IF n = 0 THEN NoOn
  ELSE LET C == FoldOn(calls, n - 1)
           f == FragmentOf(calls[n])
       IN  IF C = NoOn THEN f
           ELSE IF calls[n].method \in ConjunctFamily THEN And(C, f)
           ELSE Or(C, f)

\* C3: the on clause is the left fold of the calls' fragments, a conjunct-family
\* call replacing the whole clause C by AND(C, f) and a disjunct-family call by
\* OR(C, f); on(c1).on(c2).orOn(c3).on(c4) is ((c1 AND c2) OR c3) AND c4, and
\* on(a,'=',b).orOn(c,'=',d).on(e,'=',f) is AND(OR(cmp(a,=,b), cmp(c,=,d)), cmp(e,=,f)).
C3_LeftFold ==
  \A b \in DOMAIN joinBuilders :
    LET calls == lineage[b]
        clause == toOperationNode(joinBuilders, b).on
    IN  /\ clause = FoldOn(calls, Len(calls))
        /\ Methods(calls) = <<"on", "on", "orOn", "on">>
             => clause = And(Or(And(FragmentOf(calls[1]), FragmentOf(calls[2])),
                                FragmentOf(calls[3])),
                             FragmentOf(calls[4]))
        /\ (Methods(calls) = <<"on", "orOn", "on">>
              /\ calls[1].args = AB /\ calls[2].args = CD /\ calls[3].args = EF)
             => clause = And(Or(CmpValue("a", "b"), CmpValue("c", "d")), CmpValue("e", "f"))

\* on(c1).on(c2).orOn(c3).on(c4) has been built, with c1, c2, c3 pairwise different
C3_Witness ==
  \E b \in DOMAIN joinBuilders :
    /\ Methods(lineage[b]) = <<"on", "on", "orOn", "on">>
    /\ lineage[b][1].args = AB /\ lineage[b][2].args = CD /\ lineage[b][3].args = EF
    /\ toOperationNode(joinBuilders, b).on.kind = "AndNode"
    /\ toOperationNode(joinBuilders, b).on.left.kind = "OrNode"
    /\ toOperationNode(joinBuilders, b).on.left.left.kind = "AndNode"

RECURSIVE TrueLeaves(_)
TrueLeaves(node) ==
  IF node.kind \in {"AndNode", "OrNode"}
  THEN TrueLeaves(node.left) + TrueLeaves(node.right)
  ELSE IF node.kind = "RawNode" THEN (IF node.sql = "true" THEN 1 ELSE 0)
  ELSE 0

\* C10: every onTrue() conjuncts one raw `true`: from no on clause, onTrue() yields
\* the single predicate `true`, onTrue().onTrue() yields AND(true, true), which is
\* not the single `true`, and a clause has as many `true` leaves as onTrue() calls
\* built it.
C10_OnTrueNeverCollapses ==
  \A b \in DOMAIN joinBuilders :
    LET calls == lineage[b]
        clause == toOperationNode(joinBuilders, b).on
    IN  /\ TrueLeaves(clause) =
             Cardinality({i \in DOMAIN calls : calls[i].method = "onTrue"})
        /\ Methods(calls) = <<"onTrue">> => clause = True
        /\ Methods(calls) = <<"onTrue", "onTrue">>
             => clause = And(True, True) /\ clause # True

\* onTrue().onTrue().onTrue() has been built
C10_Witness ==
  \E b \in DOMAIN joinBuilders :
    /\ Methods(lineage[b]) = <<"onTrue", "onTrue", "onTrue">>
    /\ toOperationNode(joinBuilders, b).on = And(And(True, True), True)
    /\ \E a \in DOMAIN joinBuilders :
         /\ Methods(lineage[a]) = <<"onTrue", "onTrue">>
         /\ toOperationNode(joinBuilders, a).on = And(True, True)

----------------------------------------------------------------------------
(* Properties of failing calls *)

\* what the parser a call runs makes of the call's arguments
ParserResult(o) ==
  CASE o.cls = "JoinBuilder" /\ o.method \in {"on", "orOn"} -> parseOn(o.args)
    [] o.cls = "JoinBuilder" /\ o.method \in {"onRef", "orOnRef"} ->
         parseReferentialComparison(o.args.lhs, o.args.op, o.args.rhs)
    [] o.cls = "SubQueryBuilder" /\ o.method = "subQuery" ->
         parseTableExpressionOrList([adapter |-> RootAdapter], o.args)
    [] OTHER -> [kind |-> "none"]

FromTables(qb) ==
  {qb.props.queryNode.from.froms[i].table : i \in DOMAIN qb.props.queryNode.from.froms}

\* C4: when the parser a call runs fails, the call throws the parser's failure,
\* returns no builder, and no JoinBuilder, SubQueryBuilder or QueryBuilder is created
\* or changed; a call whose parser succeeds returns a builder made from the receiver
\* and the arguments alone (the on clause is the fold of the successful calls, the
\* query builder has the receiver's executor and adapter and the parsed tables),
\* whether or not calls on the receiver have failed before.
C4_FailFast ==
  [][ LET o == outcome'
          parsed == ParserResult(o)
      IN  /\ IsError(parsed) =>
               /\ o.threw = parsed.error
               /\ o.ret = 0
               /\ joinBuilders' = joinBuilders
               /\ subQueryBuilders' = subQueryBuilders
               /\ queryBuilders' = queryBuilders
          /\ ~IsError(parsed) =>
               /\ o.threw = NoThrow
               /\ o.cls = "JoinBuilder" =>
                    /\ o.ret = Len(joinBuilders) + 1
                    /\ Len(joinBuilders') = Len(joinBuilders) + 1
                    /\ toOperationNode(joinBuilders', o.ret).on =
                         FoldOn(lineage'[o.ret], Len(lineage'[o.ret]))
                    /\ lineage'[o.ret] =
                         Append(lineage[o.this], [method |-> o.method, args |-> o.args])
               /\ o.cls = "SubQueryBuilder" =>
                    /\ o.ret = Len(queryBuilders) + 1
                    /\ Len(queryBuilders') = Len(queryBuilders) + 1
                    /\ queryBuilders'[o.ret].props.executor =
                         subQueryBuilders[o.this].props.executor
                    /\ queryBuilders'[o.ret].props.adapter =
                         subQueryBuilders[o.this].props.adapter
                    /\ FromTables(queryBuilders'[o.ret]) =
                         {o.args.names[i] : i \in DOMAIN o.args.names}
    ]_vars

\* a call on a JoinBuilder and a call on the SubQueryBuilder have thrown, and the last
\* call, on a receiver on which a call has thrown before, returned a builder
C4_Witness ==
  /\ \E b \in DOMAIN joinBuilders : <<"JoinBuilder", b>> \in failed
  /\ <<"SubQueryBuilder", 1>> \in failed
  /\ <<outcome.cls, outcome.this>> \in failed
  /\ outcome.threw = NoThrow /\ outcome.ret # 0
  /\ Len(joinBuilders) > 1 /\ Len(queryBuilders) > 0

----------------------------------------------------------------------------
(* Properties of the SubQueryBuilder *)

SchemaPlugin(schema) == [kind |-> "WithSchemaPlugin", schema |-> schema]

C6_DistinctQueryIds ==
  /\ \A i, j \in DOMAIN queryBuilders :
       i # j => queryBuilders[i].props.queryId # queryBuilders[j].props.queryId
  /\ \A i \in DOMAIN queryBuilders : queryBuilders[i].props.queryId < nextQueryId
  /\ (outcome.cls = "SubQueryBuilder" /\ outcome.method = "subQuery"
        /\ outcome.threw = NoThrow)
       => queryBuilders[outcome.ret].props.queryId = nextQueryId - 1

\* two query builders, one from a builder derived by withSchema and one from an
\* unrelated builder, with a failed subQuery call between them
C6_Witness ==
  /\ Len(queryBuilders) = 2
  /\ queryBuilders[1].props.executor.plugins # <<>>
  /\ queryBuilders[2].props.adapter # queryBuilders[1].props.adapter
  /\ queryBuilders[2].props.queryId > queryBuilders[1].props.queryId + 1

\* C7: the query builder returned by subQuery('t2') from an outer scope holding t1
\* accepts a correlation predicate over columns of t1 and t2, and rejects one that
\* refers to a table that is neither in the outer scope nor in its own from list.
C7_ScopeExtension ==
  (outcome.cls = "QueryBuilder" /\ outcome.method = "whereRef") =>
    LET scope == OuterScope \cup FromTables(queryBuilders[outcome.this])
        used  == {outcome.args.lhs.table, outcome.args.rhs.table}
    IN  /\ outcome.threw = NoThrow <=> used \subseteq scope
        /\ used = {"t1", "t2"} => outcome.threw = NoThrow
        /\ "t3" \in used => outcome.threw # NoThrow

\* a predicate t2.owner_id = t1.id was accepted by a builder from subQuery('t2')
C7_Witness ==
  /\ outcome.cls = "QueryBuilder" /\ outcome.method = "whereRef"
  /\ outcome.args.lhs.table = "t2" /\ outcome.args.rhs.table = "t1"
  /\ FromTables(queryBuilders[outcome.this]) = {"t2"}
  /\ outcome.threw = NoThrow

\* C8: awaiting a JoinBuilder or a SubQueryBuilder throws a misuse error and resolves
\* to nothing.
C8_AwaitFailsFast ==
  outcome.method = "await" => outcome.threw # NoThrow /\ outcome.ret = 0

----------------------------------------------------------------------------
(* Properties of interleaved callers *)

RECURSIVE SchemaPlugins(_, _)
SchemaPlugins(schemas, n) ==
  IF n = 0 THEN <<>> ELSE <<SchemaPlugin(schemas[n])>> \o SchemaPlugins(schemas, n - 1)

\* C9: whatever the interleaving, the builders a caller holds are those its own
\* calls alone build from the shared builders: its join node is the fold of its own
\* on-family calls, its SubQueryBuilder's executor has the plugins of its own
\* withSchema calls, its query builder has that executor as it was at the call; the
\* shared builders stay as they were, and a caller's next call never waits.
C9_NoInterference ==
  /\ toOperationNode(joinBuilders, 1) = RootJoinNode
  /\ subQueryBuilders[1].props = [executor |-> RootExecutor, adapter |-> RootAdapter]
  /\ \A c \in Callers :
       /\ toOperationNode(joinBuilders, held[c].jb) =
            [RootJoinNode EXCEPT !.on = FoldOn(hist[c].jb, Len(hist[c].jb))]
       /\ subQueryBuilders[held[c].sqb].props =
            [executor |-> [RootExecutor EXCEPT
                             !.plugins = SchemaPlugins(hist[c].sqb, Len(hist[c].sqb))],
             adapter |-> RootAdapter]
       /\ held[c].qb # 0 =>
            /\ queryBuilders[held[c].qb].props.executor.plugins =
                 SchemaPlugins(hist[c].qb.schemas, Len(hist[c].qb.schemas))
            /\ queryBuilders[held[c].qb].props.adapter = RootAdapter
            /\ FromTables(queryBuilders[held[c].qb]) =
                 {hist[c].qb.table.names[i] : i \in DOMAIN hist[c].qb.table.names}
       /\ CanCall => ENABLED CallerStep(c)

\* the callers' calls interleaved: caller 1 called, then caller 2, then caller 1
\* again, on join builders derived from the shared one, and caller 2 derived a
\* SubQueryBuilder too
C9_Witness ==
  /\ Len(hist[1].jb) = 2 /\ Len(hist[2].jb) = 1 /\ Len(hist[2].sqb) = 1
  /\ held[1].jb = 4 /\ held[2].jb = 3 /\ held[2].sqb = 3
  /\ toOperationNode(joinBuilders, held[1].jb).on.kind \in {"AndNode", "OrNode"}

====
